---- MODULE Spec2Model ----
(***************************************************************************)
(* Model of the ARM64 logical-immediate decoder of main.c:                 *)
(*   arm64_is_bit_set, arm64_highest_set_bit, arm64_ones, arm64_replicate, *)
(*   arm64_ror, arm64_disasm_bit_masks and arm64_move_wide_preferred.      *)
(*                                                                         *)
(* A uint64_t is modelled as the set of the positions of its 1-bits        *)
(* (a subset of 0..63), so that shifts lose the bits that leave the        *)
(* register.  A uint32_t that takes part in wrapping arithmetic is         *)
(* modelled as two 16-bit limbs.  A shift by the full register width is    *)
(* undefined in C: its outcome is chosen by the variable ub.               *)
(***************************************************************************)
EXTENDS Integers, FiniteSets, Sequences, TLC

VARIABLES pc, ub, n, imms, immr, logical_imm, is_decoded, wmask, shifts,
          sf, preferred, value, shift_count, width, esize, bit_count, result

vars == <<pc, ub, n, imms, immr, logical_imm, is_decoded, wmask, shifts,
          sf, preferred, value, shift_count, width, esize, bit_count, result>>

\* sizeof(uint64_t) * CHAR_BIT
WordBits == 64
\* the 6-bit field mask 0x3F of imms and immr
FieldMask == 63
\* the number of bits of a uint32_t
HalfBits == 32
\* the radix of one limb of a modelled uint32_t
LimbRadix == 2 ^ 16
\* the halfword modulus of the move-wide comparisons
HalfwordBits == 16

Word == 0 .. (WordBits - 1)
Field == 0 .. FieldMask

\* the outcomes of a shift by WordBits or more: the count taken modulo
\* WordBits (the shifter of the machine), or every bit shifted out
UBOutcomes == {"wrap", "zero"}

(***************************************************************************)
(* Conversions between small naturals and bit sets.                        *)
(***************************************************************************)
FromNat(x) == {i \in 0 .. 30 : (x \div (2 ^ i)) % 2 = 1}

RECURSIVE ToNat(_)
ToNat(v) ==
  IF v = {} THEN 0
  ELSE LET i == CHOOSE j \in v : \A k \in v : j >= k
       IN  (2 ^ i) + ToNat(v \ {i})

(***************************************************************************)
(* The C operators on uint64_t.                                            *)
(***************************************************************************)
Shr(v, k) == {i - k : i \in {j \in v : j >= k}}

Shl(v, k, u) ==
  IF k < WordBits THEN {i + k : i \in v} \cap Word
  ELSE IF u = "wrap" THEN {i + (k % WordBits) : i \in v} \cap Word
  ELSE {}

\* v - 1 modulo 2^64
Dec(v) ==
  IF v = {} THEN Word
  ELSE LET l == CHOOSE j \in v : \A k \in v : j <= k
       IN  (v \ {l}) \cup (0 .. (l - 1))

(***************************************************************************)
(* The bit primitives.                                                     *)
(***************************************************************************)
arm64_is_bit_set(v, bit) == (Shr(v, bit) \cap {0}) # {}

RECURSIVE HighestSetBitFrom(_, _)
HighestSetBitFrom(v, i) ==
  IF i < 0 THEN -1
  ELSE IF arm64_is_bit_set(v, i) THEN i
  ELSE HighestSetBitFrom(v, i - 1)

arm64_highest_set_bit(v) == HighestSetBitFrom(v, WordBits - 1)

arm64_ones(length, u) == Dec(Shl({0}, length, u))

\* a replicate that returns its argument without tiling it
ReplicateOnce(v, es, bc, u) == v

RECURSIVE ReplicateLoop(_, _, _, _, _, _)
ReplicateLoop(v, res, set_bits, es, bc, u) ==
  IF set_bits < bc
  THEN LET v2 == Shl(v, es, u)
       IN  ReplicateLoop(v2, res \cup v2, set_bits + es, es, bc, u)
  ELSE res

arm64_replicate(v, es, bc, u) == ReplicateLoop(v, v, es, es, bc, u)

\* a rotate that ignores the rotation amount
RorNoRotate(v, sc, w, u) == IF w < 64 THEN v \cap arm64_ones(w, u) ELSE v

arm64_ror(v, sc, w, u) ==
  LET right_shift == sc
      left_shift == w - sc
      res == Shr(v, right_shift) \cup Shl(v, left_shift, u)
  IN  IF w < 64 THEN res \cap arm64_ones(w, u) ELSE res

(***************************************************************************)
(* arm64_disasm_bit_masks: the value returned and the value left in *wmask *)
(* (w0 is the value *wmask holds on entry).                                *)
(***************************************************************************)
DecodeLength(nn, is) ==
  arm64_highest_set_bit(
      {i + 6 : i \in FromNat(nn)}
      \cup (((0 .. (HalfBits - 1)) \ FromNat(is)) \cap FromNat(FieldMask)))

DecodeLevels(length, u) == arm64_ones(length, u) \cap (0 .. (HalfBits - 1))

\* a length test that lets length = 0 through
LengthNegative(length) == length < 0

LengthInvalid(length) == length < 1

arm64_disasm_bit_masks(nn, is, ir, li, w0, u) ==
  LET length == DecodeLength(nn, is)
  IN  IF LengthInvalid(length) THEN [ok |-> FALSE, wmask |-> w0]
      ELSE
        LET levels == DecodeLevels(length, u)
        IN  IF li /\ (FromNat(is) \cap levels) = levels
            THEN [ok |-> FALSE, wmask |-> w0]
            ELSE
              LET s == ToNat(FromNat(is) \cap levels)
                  r == ToNat(FromNat(ir) \cap levels)
                  es == 2 ^ length
                  welem == arm64_ones(s + 1, u)
                  rot == arm64_ror(welem, r, es, u)
              IN  [ok |-> TRUE,
                   wmask |-> arm64_replicate(rot, es, WordBits, u)]

\* the shift amounts executed by Ones, RotateRight and Replicate in one call
DecodeShifts(nn, is, ir, li, u) ==
  LET length == DecodeLength(nn, is)
  IN  IF LengthInvalid(length) THEN {}
      ELSE
        LET levels == DecodeLevels(length, u)
        IN  IF li /\ (FromNat(is) \cap levels) = levels
            THEN {length}
            ELSE
              LET s == ToNat(FromNat(is) \cap levels)
                  r == ToNat(FromNat(ir) \cap levels)
                  es == 2 ^ length
              IN  {length, s + 1, r, es - r}
                    \cup (IF es < 64 THEN {es} ELSE {})

(***************************************************************************)
(* uint32_t arithmetic on two 16-bit limbs <<high, low>>.                   *)
(***************************************************************************)
\* the conversion of an int to uint32_t
U32(x) == <<(x \div LimbRadix) % LimbRadix, x % LimbRadix>>

U32Sub(a, b) ==
  LET lo == a[2] - b[2]
      borrow == IF lo < 0 THEN 1 ELSE 0
  IN  <<(a[1] - b[1] - borrow) % LimbRadix, lo % LimbRadix>>

U32Neg(a) == U32Sub(<<0, 0>>, a)

\* a % 16
U32Mod16(a) == <<0, a[2] % HalfwordBits>>

U32Le(a, b) == a[1] < b[1] \/ (a[1] = b[1] /\ a[2] <= b[2])

(***************************************************************************)
(* arm64_move_wide_preferred.                                              *)
(***************************************************************************)
MoveWideWidth(s) == IF s = 1 THEN 64 ELSE 32

ElementSizeMismatch(s, immn, is) ==
  \/ s = 1 /\ immn # 1
  \/ s = 0 /\ (immn # 0 \/ arm64_is_bit_set(FromNat(is), 6))

\* a MOVZ test that forgets to negate immr
MovzNoNegate(is, ir) ==
  U32Le(U32Mod16(U32(ir)), U32Sub(U32(15), U32(is)))

MovzPreferred(is, ir) ==
  U32Le(U32Mod16(U32Neg(U32(ir))), U32Sub(U32(15), U32(is)))

MovnPreferred(is, ir, w) ==
  U32Le(U32Mod16(U32(ir)), U32Sub(U32Sub(U32(is), U32(w)), U32(15)))

arm64_move_wide_preferred(s, immn, is, ir) ==
  LET w == MoveWideWidth(s)
  IN  IF ElementSizeMismatch(s, immn, is) THEN FALSE
      ELSE IF is < 16 THEN MovzPreferred(is, ir)
      ELSE IF U32Le(U32(w - 15), U32(is)) THEN MovnPreferred(is, ir, w)
      ELSE FALSE

(***************************************************************************)
(* The decoder called once on every encoding.                              *)
(***************************************************************************)
Init ==
  /\ pc = "call"
  /\ ub \in UBOutcomes
  /\ n \in 0 .. 1
  /\ imms \in Field
  /\ immr \in Field
  /\ logical_imm \in BOOLEAN
  /\ is_decoded = FALSE
  /\ wmask = {}
  /\ shifts = {}
  /\ sf = 0
  /\ preferred = FALSE
  /\ value = {}
  /\ shift_count = 0
  /\ width = 0
  /\ esize = 0
  /\ bit_count = 0
  /\ result = {}

DisasmBitMasks ==
  /\ pc = "call"
  /\ LET d == arm64_disasm_bit_masks(n, imms, immr, logical_imm, wmask, ub)
     IN  /\ is_decoded' = d.ok
         /\ wmask' = d.wmask
  /\ shifts' = DecodeShifts(n, imms, immr, logical_imm, ub)
  /\ pc' = "done"
  /\ UNCHANGED <<ub, n, imms, immr, logical_imm, sf, preferred, value,
                 shift_count, width, esize, bit_count, result>>

Next == DisasmBitMasks

Spec == Init /\ [][Next]_vars

(***************************************************************************)
(* The move-wide predicate called once on every (sf, immN, imms, immr).    *)
(***************************************************************************)
InitMoveWide ==
  /\ pc = "call"
  /\ ub \in UBOutcomes
  /\ sf \in 0 .. 1
  /\ n \in 0 .. 1
  /\ imms \in Field
  /\ immr \in Field
  /\ logical_imm = TRUE
  /\ is_decoded = FALSE
  /\ wmask = {}
  /\ shifts = {}
  /\ preferred = FALSE
  /\ value = {}
  /\ shift_count = 0
  /\ width = 0
  /\ esize = 0
  /\ bit_count = 0
  /\ result = {}

MoveWidePreferred ==
  /\ pc = "call"
  /\ preferred' = arm64_move_wide_preferred(sf, n, imms, immr)
  /\ width' = MoveWideWidth(sf)
  /\ pc' = "done"
  /\ UNCHANGED <<ub, n, imms, immr, logical_imm, is_decoded, wmask, shifts,
                 sf, value, shift_count, esize, bit_count, result>>

NextMoveWide == MoveWidePreferred

SpecMoveWide == InitMoveWide /\ [][NextMoveWide]_vars

(***************************************************************************)
(* RotateRight and Replicate called once on values of a bounded family.    *)
(***************************************************************************)
\* the values tried have their 1-bits among the MaxValueBits lowest or the
\* MaxValueBits highest positions of the register
MaxValueBits == 4

Values ==
  LET low == SUBSET (0 .. (MaxValueBits - 1))
  IN  low \cup {{i + (WordBits - MaxValueBits) : i \in v} : v \in low}

InitPrim ==
  /\ ub \in UBOutcomes
  /\ value \in Values
  /\ \/ /\ pc = "call_ror"
        /\ width \in 1 .. WordBits
        /\ shift_count \in 0 .. (width - 1)
        /\ esize = 0
        /\ bit_count = 0
     \/ /\ pc = "call_replicate"
        /\ esize \in 1 .. WordBits
        /\ bit_count \in {esize, WordBits}
        /\ width = 0
        /\ shift_count = 0
  /\ result = {}
  /\ n = 0
  /\ imms = 0
  /\ immr = 0
  /\ logical_imm = FALSE
  /\ is_decoded = FALSE
  /\ wmask = {}
  /\ shifts = {}
  /\ sf = 0
  /\ preferred = FALSE

Ror ==
  /\ pc = "call_ror"
  /\ result' = arm64_ror(value, shift_count, width, ub)
  /\ pc' = "done_ror"
  /\ UNCHANGED <<ub, n, imms, immr, logical_imm, is_decoded, wmask, shifts,
                 sf, preferred, value, shift_count, width, esize, bit_count>>

Replicate ==
  /\ pc = "call_replicate"
  /\ result' = arm64_replicate(value, esize, bit_count, ub)
  /\ pc' = "done_replicate"
  /\ UNCHANGED <<ub, n, imms, immr, logical_imm, is_decoded, wmask, shifts,
                 sf, preferred, value, shift_count, width, esize, bit_count>>

NextPrim == Ror \/ Replicate

SpecPrim == InitPrim /\ [][NextPrim]_vars

(***************************************************************************)
(* The reference quantities of the claims, on naturals.                    *)
(***************************************************************************)
\* HighestSetBit of the 7-bit value N:NOT(imms)
RefLength(nn, is) ==
  LET x == nn * 64 + (63 - is)
  IN  IF x = 0 THEN -1
      ELSE CHOOSE i \in 0 .. 6 : 2 ^ i <= x /\ x < 2 ^ (i + 1)

\* the logical-immediate value of an element of es bits holding s + 1 ones
\* rotated right by r, tiled over the 64 bits
RefMask(es, s, r) == {i \in Word : ((i % es) + r) % es <= s}

Triples == (0 .. 1) \X Field \X Field

\* the triples a logical decode accepts, each with the value it returns,
\* for either outcome of a full-width shift
DecodedBy(u) ==
  {<<t, arm64_disasm_bit_masks(t[1], t[2], t[3], TRUE, {}, u).wmask>> :
     t \in {x \in Triples :
              arm64_disasm_bit_masks(x[1], x[2], x[3], TRUE, {}, u).ok}}

DecodedWrap == DecodedBy("wrap")

DecodedZero == DecodedBy("zero")

Decoded == IF ub = "wrap" THEN DecodedWrap ELSE DecodedZero

\* C1: the decoder reports Undefined exactly when length < 1, or the context
\* is logical and the low length bits of imms are all ones; immr plays no part.
C1_UndefinedExactly ==
  pc = "done" =>
    LET len == RefLength(n, imms)
    IN  (~is_decoded) <=>
          (len < 1 \/ (logical_imm /\ imms % (2 ^ len) = (2 ^ len) - 1))

\* a logical call on an 8-bit element rejected for its all-ones S field
C1_Witness ==
  /\ pc = "done"
  /\ ~is_decoded
  /\ logical_imm
  /\ RefLength(n, imms) = 3
  /\ imms % 8 = 7
  /\ immr = 5

\* C2: a successful logical decode returns the reference value: bit i is 1
\* exactly when ((i mod esize) + r) mod esize <= s.
C2_ReferenceValue ==
  (pc = "done" /\ logical_imm /\ is_decoded) =>
    LET es == 2 ^ RefLength(n, imms)
    IN  wmask = RefMask(es, imms % es, immr % es)

\* a 16-bit element with a rotated run, tiled four times
C2_Witness ==
  /\ pc = "done"
  /\ logical_imm
  /\ is_decoded
  /\ n = 0
  /\ imms = 35
  /\ immr = 5
  /\ wmask = RefMask(16, 3, 5)

\* C3 (as stated): two distinct triples that both decode give different values.
C3_DistinctTriplesDiffer ==
  (pc = "done" /\ logical_imm /\ is_decoded) =>
    \A e \in Decoded : e[1] # <<n, imms, immr>> => e[2] # wmask

\* C3 (amended): two triples that both decode to the same value have the same
\* N, the same imms and the same immr modulo the element size.
C3_SameValueSameElement ==
  (pc = "done" /\ logical_imm /\ is_decoded) =>
    \A e \in Decoded :
      e[2] = wmask =>
        LET es == 2 ^ RefLength(n, imms)
        IN  e[1][1] = n /\ e[1][2] = imms /\ e[1][3] % es = immr % es

\* a decoded 2-bit element, whose value a second immr also decodes to
C3_Witness ==
  /\ pc = "done"
  /\ logical_imm
  /\ is_decoded
  /\ n = 0
  /\ imms = 60
  /\ immr = 0
  /\ <<<<0, 60, 2>>, wmask>> \in Decoded

\* C7: every shift executed by Ones, RotateRight and Replicate during a decode
\* has an amount in 0..63.
C7_ShiftsBelowWidth ==
  pc = "done" => \A k \in shifts : k >= 0 /\ k < WordBits

\* the element size implied by N:imms, 0 when no bit of N:NOT(imms) is set
RefElementSize(nn, is) ==
  IF RefLength(nn, is) < 0 THEN 0 ELSE 2 ^ RefLength(nn, is)

\* the aligned 16-bit halfwords of a w-bit value
Halfwords(w) ==
  {(HalfwordBits * h) .. (HalfwordBits * h + HalfwordBits - 1) :
     h \in 0 .. ((w \div HalfwordBits) - 1)}

\* a w-bit value a single MOVZ or MOVN produces
MoveWideRepresentable(v, w) ==
  \E h \in Halfwords(w) : v \subseteq h \/ ((0 .. (w - 1)) \ v) \subseteq h

\* the code's own element-size test: 0b1xxxxxx for 64 bits, immN = 0 and
\* bit 6 of imms clear for 32 bits
PassesSizeCheck ==
  \/ sf = 1 /\ n = 1
  \/ sf = 0 /\ n = 0 /\ imms < 64

\* C4: when move_wide_preferred returns true and the logical decode succeeds,
\* the value truncated to width bits has all its ones, or all its zeros, in
\* one aligned halfword.
C4_PreferredIsMoveWide ==
  LET d == arm64_disasm_bit_masks(n, imms, immr, TRUE, {}, ub)
  IN  (pc = "done" /\ preferred /\ d.ok) =>
        MoveWideRepresentable(d.wmask \cap (0 .. (width - 1)), width)

\* C5: move_wide_preferred returns false whenever the element size implied
\* by immN:imms differs from width.
C5_RejectsSizeMismatch ==
  (pc = "done" /\ RefElementSize(n, imms) # width) => ~preferred

\* C8: in the MOVN branch the result is immr mod 16 <= imms - width - 15 on
\* the integers; between 16 and width - 16 the result is false.
C8_MovnInteger ==
  (pc = "done" /\ PassesSizeCheck /\ imms >= 16) =>
    IF imms >= width - 15
    THEN preferred <=> (immr % 16 <= imms - width - 15)
    ELSE ~preferred

\* C9: in the MOVZ branch the result is (-immr) mod 16 <= 15 - imms, and it
\* is true for sf = 1, immN = 1, imms = 0 whatever immr is.
C9_MovzBranch ==
  (pc = "done" /\ PassesSizeCheck /\ imms < 16) =>
    /\ preferred <=> ((16 - (immr % 16)) % 16 <= 15 - imms)
    /\ (sf = 1 /\ n = 1 /\ imms = 0) => preferred

\* a run of four ones rotated right by three, rejected for straddling the
\* boundary between the lowest and the highest halfword
C9_Witness ==
  /\ pc = "done"
  /\ sf = 1
  /\ n = 1
  /\ imms = 3
  /\ immr = 3
  /\ ~preferred

\* C6: Replicate(v, esize, esize) keeps only the low esize bits of v.
C6_ReplicateIdentity ==
  (pc = "done_replicate" /\ bit_count = esize) =>
    result = value \cap (0 .. (esize - 1))

\* C10: RotateRight returns the rotation of the low width bits of value:
\* bit j < width of the result is bit (j + shiftCount) mod width of value,
\* and no bit at or above width is set.
C10_RotateLowBits ==
  pc = "done_ror" =>
    result = {j \in 0 .. (width - 1) : ((j + shift_count) % width) \in value}

====
